---- MODULE Spec2Model ----
(***************************************************************************)
(* Model of notehub.py: the credential slot, the session-token cache and   *)
(* the six tool handlers (getCredentials, setCredentials, getProjects,     *)
(* getDevices, getEvents, sendNote).                                       *)
(*                                                                         *)
(* Every handler is `async def` but none of them contains a suspension     *)
(* point: the only `await` is `await get_session_token()`, and that        *)
(* coroutine calls the blocking SDK (login, get_projects, ...) and never   *)
(* awaits.  On the asyncio event loop a handler therefore runs from its    *)
(* first to its last statement without another handler running in between, *)
(* so one handler invocation is one action.                                *)
(*                                                                         *)
(* Strings are sequences of characters, so that the f-string of the cache  *)
(* key is a real concatenation.                                            *)
(***************************************************************************)
EXTENDS Integers, Sequences, FiniteSets, TLC

(***************************************************************************)
(* Bounds of the model.                                                    *)
(***************************************************************************)
MaxNow == 3601

(***************************************************************************)
(* Program constants.                                                      *)
(***************************************************************************)
TOKEN_EXPIRY_SECONDS == 3600

(***************************************************************************)
(* Input domains.                                                          *)
(***************************************************************************)
\* A string is the sequence of its characters; <<>> is the empty string.
\* The (username, password) arguments the callers of setCredentials use.
CredentialInputs ==
    {<< <<>>, <<>> >>,
     << <<"a">>, <<>> >>,
     << <<"a">>, <<"b", ":", "c">> >>,
     << <<"a", ":", "b">>, <<"c">> >>}

\* What the process environment holds for NOTEHUB_USERNAME and
\* NOTEHUB_PASSWORD.  An unset variable (os.getenv gives None) and an empty
\* one are both falsy at line 55 and nothing else reads them, so both are the
\* empty string here.
Environments ==
    {[NOTEHUB_USERNAME |-> <<"a">>, NOTEHUB_PASSWORD |-> <<"b", ":", "c">>],
     [NOTEHUB_USERNAME |-> <<"a">>, NOTEHUB_PASSWORD |-> <<>>],
     [NOTEHUB_USERNAME |-> <<>>, NOTEHUB_PASSWORD |-> <<>>]}

\* how far the clock moves between two tool invocations
ClockSteps == {1800}
\* seconds between the clock read of clear_expired_tokens and the one that
\* stamps the cache entry after the login returned
LoginLatency == {0, 1}

LoginOutcomes == {"ok", "ApiException", "NetworkError"}
CallOutcomes == {"ok", "ApiException"}

None == <<>>
Unset == "Unset"
NoneValue == "None"
Val == "v"

VARIABLES current_credentials, token_cache, environ, now, last

vars == <<current_credentials, token_cache, environ, now, last>>

(***************************************************************************)
(* Truthiness of a Python str / Optional[str].                             *)
(***************************************************************************)
Truthy(s) == s # <<>>

Creds(username, password) == [username |-> username, password |-> password]

(***************************************************************************)
(* set_credentials: the new value of the global slot.                      *)
(***************************************************************************)
set_credentials(username, password) == Creds(username, password)

(***************************************************************************)
(* load_credentials_from_env: [loaded, credentials after the call].        *)
(***************************************************************************)
load_credentials_from_env(creds, env) ==
    LET username == env.NOTEHUB_USERNAME
        password == env.NOTEHUB_PASSWORD
    IN IF Truthy(username) /\ Truthy(password)
       THEN [loaded |-> TRUE, credentials |-> set_credentials(username, password)]
       ELSE [loaded |-> FALSE, credentials |-> creds]

(***************************************************************************)
(* clear_expired_tokens: the cache without the entries older than the      *)
(* expiry.                                                                 *)
(***************************************************************************)
\* variant: the thirty-minute buffered window instead of the flat hour
IsExpired_Buffered(current_time, timestamp) ==
    current_time - timestamp > TOKEN_EXPIRY_SECONDS \div 2

IsExpired(current_time, timestamp) ==
    current_time - timestamp > TOKEN_EXPIRY_SECONDS

clear_expired_tokens(cache, current_time) ==
    LET expired_keys == {key \in DOMAIN cache :
                            IsExpired(current_time, cache[key].timestamp)}
    IN [key \in DOMAIN cache \ expired_keys |-> cache[key]]

(***************************************************************************)
(* cache_key = f"{username}:{password}"                                    *)
(***************************************************************************)
cache_key(creds) == creds.username \o <<":">> \o creds.password

(***************************************************************************)
(* The remote login endpoint: the session token it returns for a           *)
(* LoginRequest is an opaque value that stands for the account that logged *)
(* in and the instant of the login.                                        *)
(***************************************************************************)
NoToken == [pair |-> None, issued |-> -1]

\* variant: the two fields of the LoginRequest exchanged
login_request_Swapped(creds) == Creds(creds.password, creds.username)

login_request(creds) == Creds(creds.username, creds.password)

login(request, time) == [pair |-> request, issued |-> time]

(***************************************************************************)
(* What get_session_token stores after a login.                            *)
(***************************************************************************)
\* variant: the cache write moved out of the try block
CacheAfterLogin_Always(cache, key, outcome, token, time) ==
    (key :> [token |-> token, timestamp |-> time]) @@ cache

CacheAfterLogin(cache, key, outcome, token, time) ==
    IF outcome = "ok"
    THEN (key :> [token |-> token, timestamp |-> time]) @@ cache
    ELSE cache

(***************************************************************************)
(* get_session_token, as a function of the state it reads and of what the  *)
(* remote side does (outcome, latency).  kind is "return" or "raise".      *)
(***************************************************************************)
get_session_token(creds, cache, current_time, outcome, latency) ==
    IF creds = None
    THEN [kind |-> "raise", auth |-> "no_credentials",
          exc |-> "Credentials not set. Call set_credentials() first.",
          token |-> NoToken, cache |-> cache, logins |-> 0, elapsed |-> 0]
    ELSE LET purged == clear_expired_tokens(cache, current_time)
             key == cache_key(creds)
         IN IF key \in DOMAIN purged
            THEN [kind |-> "return", auth |-> "hit", exc |-> "-",
                  token |-> purged[key].token, cache |-> purged,
                  logins |-> 0, elapsed |-> 0]
            ELSE LET token == IF outcome = "ok"
                              THEN login(login_request(creds), current_time)
                              ELSE NoToken
                 IN [kind |-> IF outcome = "ok" THEN "return" ELSE "raise",
                     auth |-> IF outcome = "ok" THEN "login_ok"
                              ELSE IF outcome = "ApiException"
                                   THEN "login_rejected"
                                   ELSE "login_network",
                     exc |-> IF outcome = "ok" THEN "-"
                             ELSE IF outcome = "ApiException"
                                  THEN "Error getting session token"
                                  ELSE "NetworkError",
                     token |-> token,
                     cache |-> CacheAfterLogin(purged, key, outcome, token,
                                               current_time + latency),
                     logins |-> 1,
                     elapsed |-> IF outcome = "ok" THEN latency ELSE 0]

(***************************************************************************)
(* Values returned by the handlers.  shape is "mapping" (a dict), "none"   *)
(* (the handler fell off its end and returned None) or "raised" (an        *)
(* exception left the handler).                                            *)
(***************************************************************************)
StatusDict(status, message) ==
    [shape |-> "mapping", keys |-> {"status", "message"},
     status |-> status, message |-> message]

ErrorDict(exc) ==
    [shape |-> "mapping", keys |-> {"error"}, status |-> "-", message |-> exc]

ResponseDict(name) ==
    [shape |-> "mapping", keys |-> {name}, status |-> "-", message |-> "-"]

ReturnsNone ==
    [shape |-> "none", keys |-> {}, status |-> "-", message |-> "-"]

Raised(exc) ==
    [shape |-> "raised", keys |-> {}, status |-> "-", message |-> exc]

(***************************************************************************)
(* Outgoing SDK calls: the api method, the session token configured as     *)
(* api key, the arguments of the call by name, and the fields set on the   *)
(* Note object of handle_note_add.                                         *)
(***************************************************************************)
NoRequest == [api |-> "-", api_key |-> NoToken, kwargs |-> <<>>, note |-> <<>>]

Request(api, token, kwargs, note) ==
    [api |-> api, api_key |-> token, kwargs |-> kwargs, note |-> note]

\* {k: v for k, v in params.items() if v is not None}
filtered_params(params) ==
    [k \in {k \in DOMAIN params : params[k] # NoneValue} |-> params[k]]

\* binding of the keyword arguments of a call: a parameter the caller does
\* not pass takes the default of the signature
Bind(defaults, args) ==
    [p \in DOMAIN defaults |-> IF args[p] = Unset THEN defaults[p] ELSE args[p]]

DeviceDefaults == [p \in {"fleet_uid", "tag", "device_uid"} |-> NoneValue]

EventParams ==
    {"device_uid", "serial_number", "page_size", "page_num",
     "notecard_firmware", "location", "host_firmware", "host_name",
     "product_uid", "sku", "fleet_uid", "files", "select_fields"}

EventDefaults ==
    [p \in EventParams |-> IF p = "page_size" THEN "50"
                           ELSE IF p = "page_num" THEN "1"
                           ELSE NoneValue]

NoteDefaults ==
    [p \in {"notefile_id", "body", "payload"} |->
        IF p = "body" THEN "{}" ELSE NoneValue]

\* the arguments a caller can pass: each optional parameter is left out
\* (Unset), or passed as None, or passed with a value
AllUnset(defaults) == [p \in DOMAIN defaults |-> Unset]

\* getDevices: no filter passed, only tag passed, all three passed
DeviceArgs ==
    {AllUnset(DeviceDefaults),
     [AllUnset(DeviceDefaults) EXCEPT !["tag"] = Val],
     [p \in DOMAIN DeviceDefaults |-> Val]}

\* getEvents: no filter passed, all thirteen passed, page_size passed as None
EventArgs ==
    {AllUnset(EventDefaults),
     [p \in EventParams |-> Val],
     [AllUnset(EventDefaults) EXCEPT !["page_size"] = NoneValue]}

\* sendNote: nothing passed, all three passed
NoteArgs ==
    {AllUnset(NoteDefaults),
     [p \in DOMAIN NoteDefaults |-> Val]}

NoArgs == <<>>

(***************************************************************************)
(* The except clauses of the four facades.                                 *)
(***************************************************************************)
get_projects_except(exc) == ErrorDict(exc)
get_project_devices_except(exc) == ErrorDict(exc)
get_project_events_except(exc) == ErrorDict(exc)
\* variant: the except clause lets the exception through
send_note_except_Reraise(exc) == Raised(exc)

send_note_except(exc) == StatusDict("error", exc)

(***************************************************************************)
(* The SDK calls the facades build.                                        *)
(***************************************************************************)
get_projects_request(token) == Request("get_projects", token, <<>>, <<>>)

get_project_devices_request(token, args) ==
    LET a == Bind(DeviceDefaults, args)
        params == [k \in {"tag", "device_uid"} |-> a[k]]
    IN Request("get_project_devices", token,
               ("project_uid" :> "proj1") @@ ("fleet_uid" :> a["fleet_uid"])
                   @@ filtered_params(params),
               <<>>)

get_project_events_request(token, args) ==
    LET params == Bind(EventDefaults, args)
    IN Request("get_project_events", token,
               ("project_uid" :> "proj1") @@ filtered_params(params),
               <<>>)

send_note_request(token, args) ==
    LET a == Bind(NoteDefaults, args)
        note == filtered_params([k \in {"body", "payload"} |-> a[k]])
    IN Request("handle_note_add", token,
               ("project_uid" :> "proj1") @@ ("device_uid" :> "dev1")
                   @@ ("notefile_id" :> a["notefile_id"]) @@ ("note" :> "Note"),
               note)

(***************************************************************************)
(* The body of a facade: token, then the call, then the result; every      *)
(* exception goes to the except clause.                                    *)
(***************************************************************************)
get_projects(tok, callOutcome) ==
    IF tok.kind = "raise"
    THEN [result |-> get_projects_except(tok.exc), raised |-> tok.exc,
          requests |-> 0, request |-> NoRequest]
    ELSE IF callOutcome = "ok"
    THEN [result |-> ResponseDict("projects"),
          raised |-> "-", requests |-> 1,
          request |-> get_projects_request(tok.token)]
    ELSE [result |-> get_projects_except(callOutcome), raised |-> callOutcome,
          requests |-> 1,
          request |-> get_projects_request(tok.token)]

get_project_devices(tok, args, callOutcome) ==
    IF tok.kind = "raise"
    THEN [result |-> get_project_devices_except(tok.exc), raised |-> tok.exc,
          requests |-> 0, request |-> NoRequest]
    ELSE IF callOutcome = "ok"
    THEN [result |-> ResponseDict("devices"),
          raised |-> "-", requests |-> 1,
          request |-> get_project_devices_request(tok.token, args)]
    ELSE [result |-> get_project_devices_except(callOutcome), raised |-> callOutcome,
          requests |-> 1,
          request |-> get_project_devices_request(tok.token, args)]

get_project_events(tok, args, callOutcome) ==
    IF tok.kind = "raise"
    THEN [result |-> get_project_events_except(tok.exc), raised |-> tok.exc,
          requests |-> 0, request |-> NoRequest]
    ELSE IF callOutcome = "ok"
    THEN [result |-> ResponseDict("events"),
          raised |-> "-", requests |-> 1,
          request |-> get_project_events_request(tok.token, args)]
    ELSE [result |-> get_project_events_except(callOutcome), raised |-> callOutcome,
          requests |-> 1,
          request |-> get_project_events_request(tok.token, args)]

send_note(tok, args, callOutcome) ==
    IF tok.kind = "raise"
    THEN [result |-> send_note_except(tok.exc), raised |-> tok.exc,
          requests |-> 0, request |-> NoRequest]
    ELSE IF callOutcome = "ok"
    THEN [result |-> StatusDict("success", "Note sent successfully"),
          raised |-> "-", requests |-> 1,
          request |-> send_note_request(tok.token, args)]
    ELSE [result |-> send_note_except(callOutcome), raised |-> callOutcome,
          requests |-> 1,
          request |-> send_note_request(tok.token, args)]

(***************************************************************************)
(* getCredentials and setCredentials: [credentials after, result].         *)
(***************************************************************************)
\* variant: the environment is consulted before the slot
get_credentials_EnvFirst(creds, env) ==
    LET l == load_credentials_from_env(creds, env)
    IN IF l.loaded
       THEN [credentials |-> l.credentials,
             result |-> StatusDict("success",
                        "Credentials loaded from environment variables")]
       ELSE IF creds # None
       THEN [credentials |-> creds,
             result |-> StatusDict("success",
                        "Credentials are already set programmatically")]
       ELSE [credentials |-> l.credentials,
             result |-> StatusDict("error",
                        "Credentials could not be loaded from environment variables")]

get_credentials(creds, env) ==
    IF creds # None
    THEN [credentials |-> creds,
          result |-> StatusDict("success",
                        "Credentials are already set programmatically")]
    ELSE LET l == load_credentials_from_env(creds, env)
         IN IF l.loaded
            THEN [credentials |-> l.credentials,
                  result |-> StatusDict("success",
                        "Credentials loaded from environment variables")]
            ELSE [credentials |-> l.credentials,
                  result |-> StatusDict("error",
                        "Credentials could not be loaded from environment variables")]

\* variant: `or` for `and` in the test for missing arguments
set_credentials_tool_Or(creds, env, username, password) ==
    IF ~Truthy(username) \/ ~Truthy(password)
    THEN LET l == load_credentials_from_env(creds, env)
         IN IF l.loaded
            THEN [credentials |-> l.credentials,
                  result |-> StatusDict("success",
                        "Credentials loaded from environment variables")]
            ELSE [credentials |-> l.credentials,
                  result |-> StatusDict("error",
                        "No credentials provided and none found in environment variables")]
    ELSE [credentials |-> set_credentials(username, password),
          result |-> ReturnsNone]

set_credentials_tool(creds, env, username, password) ==
    IF ~Truthy(username) /\ ~Truthy(password)
    THEN LET l == load_credentials_from_env(creds, env)
         IN IF l.loaded
            THEN [credentials |-> l.credentials,
                  result |-> StatusDict("success",
                        "Credentials loaded from environment variables")]
            ELSE [credentials |-> l.credentials,
                  result |-> StatusDict("error",
                        "No credentials provided and none found in environment variables")]
    ELSE [credentials |-> set_credentials(username, password),
          result |-> ReturnsNone]

(***************************************************************************)
(* State machine.                                                          *)
(***************************************************************************)
Invocation(op, args, auth, token, logins, requests, request, raised, result) ==
    [op |-> op, args |-> args, auth |-> auth, token |-> token,
     logins |-> logins, requests |-> requests, request |-> request,
     raised |-> raised, result |-> result]

Init ==
    /\ current_credentials = None
    /\ token_cache = <<>>
    /\ environ \in Environments
    /\ now = 0
    /\ last = Invocation("start", NoArgs, "none", NoToken, 0, 0, NoRequest,
                         "-", ReturnsNone)

\* does get_session_token reach the login call in this state?
ReachesLogin ==
    /\ current_credentials # None
    /\ cache_key(current_credentials)
           \notin DOMAIN clear_expired_tokens(token_cache, now)

\* what the login endpoint can answer, when it is asked
LoginOutcomesNow == IF ReachesLogin THEN LoginOutcomes ELSE {"ok"}

LatenciesOf(outcome) ==
    IF ReachesLogin /\ outcome = "ok" THEN LoginLatency ELSE {0}

\* what the resource endpoint can answer, when it is asked
CallOutcomesOf(tok) ==
    IF tok.kind = "return" THEN CallOutcomes ELSE {"ok"}

Tick ==
    \E d \in ClockSteps :
        /\ now + d <= MaxNow
        /\ now' = now + d
        /\ UNCHANGED <<current_credentials, token_cache, environ, last>>

GetCredentials ==
    LET r == get_credentials(current_credentials, environ)
    IN /\ current_credentials' = r.credentials
       /\ last' = Invocation("getCredentials", NoArgs, "none", NoToken, 0, 0,
                             NoRequest, "-", r.result)
       /\ UNCHANGED <<token_cache, environ, now>>

SetCredentialsCall(username, password) ==
    LET r == set_credentials_tool(current_credentials, environ,
                                  username, password)
    IN /\ current_credentials' = r.credentials
       /\ last' = Invocation("setCredentials", Creds(username, password),
                             "none", NoToken, 0, 0, NoRequest, "-", r.result)
       /\ UNCHANGED <<token_cache, environ, now>>

SetCredentials ==
    \E <<username, password>> \in CredentialInputs :
        SetCredentialsCall(username, password)

\* the part every facade shares: the effect of get_session_token
Authenticated(tok) ==
    /\ now + tok.elapsed <= MaxNow
    /\ token_cache' = tok.cache
    /\ now' = now + tok.elapsed
    /\ UNCHANGED <<current_credentials, environ>>

GetProjects ==
    \E outcome \in LoginOutcomesNow :
        \E latency \in LatenciesOf(outcome) :
        LET tok == get_session_token(current_credentials, token_cache,
                                     now, outcome, latency)
        IN \E callOutcome \in CallOutcomesOf(tok) :
            LET r == get_projects(tok, callOutcome)
            IN /\ Authenticated(tok)
               /\ last' = Invocation("getProjects", NoArgs, tok.auth, tok.token,
                                     tok.logins, r.requests, r.request,
                                     r.raised, r.result)

GetDevices ==
    \E outcome \in LoginOutcomesNow :
        \E latency \in LatenciesOf(outcome) :
        \E args \in DeviceArgs :
        LET tok == get_session_token(current_credentials, token_cache,
                                     now, outcome, latency)
        IN \E callOutcome \in CallOutcomesOf(tok) :
            LET r == get_project_devices(tok, args, callOutcome)
            IN /\ Authenticated(tok)
               /\ last' = Invocation("getDevices", args, tok.auth, tok.token,
                                     tok.logins, r.requests, r.request,
                                     r.raised, r.result)

GetEvents ==
    \E outcome \in LoginOutcomesNow :
        \E latency \in LatenciesOf(outcome) :
        \E args \in EventArgs :
        LET tok == get_session_token(current_credentials, token_cache,
                                     now, outcome, latency)
        IN \E callOutcome \in CallOutcomesOf(tok) :
            LET r == get_project_events(tok, args, callOutcome)
            IN /\ Authenticated(tok)
               /\ last' = Invocation("getEvents", args, tok.auth, tok.token,
                                     tok.logins, r.requests, r.request,
                                     r.raised, r.result)

SendNote ==
    \E outcome \in LoginOutcomesNow :
        \E latency \in LatenciesOf(outcome) :
        \E args \in NoteArgs :
        LET tok == get_session_token(current_credentials, token_cache,
                                     now, outcome, latency)
        IN \E callOutcome \in CallOutcomesOf(tok) :
            LET r == send_note(tok, args, callOutcome)
            IN /\ Authenticated(tok)
               /\ last' = Invocation("sendNote", args, tok.auth, tok.token,
                                     tok.logins, r.requests, r.request,
                                     r.raised, r.result)

Next ==
    \/ Tick
    \/ GetCredentials
    \/ SetCredentials
    \/ GetProjects
    \/ GetDevices
    \/ GetEvents
    \/ SendNote

Spec == Init /\ [][Next]_vars

(***************************************************************************)
(* Vocabulary of the properties.                                           *)
(***************************************************************************)
FacadeOps == {"getProjects", "getDevices", "getEvents", "sendNote"}

\* The kind of a step, read from the two states.  Only Tick leaves last and
\* the cache alone while the clock moves (a login that takes time adds a
\* cache entry), and each handler writes its own name into last.op.
TickStep == UNCHANGED <<current_credentials, token_cache, environ, last>>

\* a step of one of the four facades
Facade == last'.op \in FacadeOps /\ ~TickStep

GetCredentialsStep == last'.op = "getCredentials" /\ ~TickStep

SetCredentialsStep == last'.op = "setCredentials" /\ ~TickStep

LoginFailures == {"login_rejected", "login_network"}

EnvComplete ==
    Truthy(environ.NOTEHUB_USERNAME) /\ Truthy(environ.NOTEHUB_PASSWORD)

EnvPair == Creds(environ.NOTEHUB_USERNAME, environ.NOTEHUB_PASSWORD)

ActiveKeyCached ==
    /\ current_credentials # None
    /\ cache_key(current_credentials) \in DOMAIN token_cache

Age(entry) == now - entry.timestamp

(***************************************************************************)
(* C1: while less than the TTL has elapsed since the login that filled the *)
(* entry of the active pair, the entry stays in the cache whatever step is *)
(* taken, and a facade called with that pair performs no login and uses    *)
(* the token the login returned; getProjects then makes exactly one        *)
(* projects call with it.  The login that succeeds stores the token it     *)
(* returned under the key of the active pair, stamped with the clock.      *)
(***************************************************************************)
C1_CacheHitWithinTTL ==
    [][/\ \A k \in DOMAIN token_cache :
            Age(token_cache[k]) < TOKEN_EXPIRY_SECONDS =>
                /\ k \in DOMAIN token_cache'
                /\ token_cache'[k] = token_cache[k]
                /\ (Facade /\ current_credentials # None
                           /\ cache_key(current_credentials) = k) =>
                        /\ last'.auth = "hit"
                        /\ last'.logins = 0
                        /\ last'.token = token_cache[k].token
                        /\ last'.op = "getProjects" =>
                              /\ last'.requests = 1
                              /\ last'.request.api_key = token_cache[k].token
       /\ (Facade /\ last'.auth = "login_ok") =>
            /\ cache_key(current_credentials) \in DOMAIN token_cache'
            /\ token_cache'[cache_key(current_credentials)]
                    = [token |-> last'.token, timestamp |-> now']
      ]_vars

\* getProjects answered from the cache half a TTL after the login
C1_Witness ==
    /\ last.op = "getProjects"
    /\ last.auth = "hit"
    /\ last.logins = 0
    /\ last.requests = 1
    /\ ActiveKeyCached
    /\ Age(token_cache[cache_key(current_credentials)]) > 0
    /\ Age(token_cache[cache_key(current_credentials)]) < TOKEN_EXPIRY_SECONDS
    /\ last.token = token_cache[cache_key(current_credentials)].token

(***************************************************************************)
(* C2: a facade called when obtained_at + ttl <= now holds for the entry   *)
(* of the active pair does not answer from the cache: it logs in again.    *)
(***************************************************************************)
C2_StaleTokenNotReturned ==
    [][(/\ Facade
        /\ ActiveKeyCached
        /\ token_cache[cache_key(current_credentials)].timestamp
              + TOKEN_EXPIRY_SECONDS <= now)
        => (last'.auth # "hit" /\ last'.logins = 1)]_vars

(***************************************************************************)
(* C3: a facade never lets an exception out and never returns None; what   *)
(* was raised inside it comes back as an error mapping ('error' key, or    *)
(* status 'error' for sendNote); no resource request is issued when the    *)
(* token could not be obtained.                                            *)
(***************************************************************************)
C3_FacadeReturnsErrorMapping ==
    last.op \in FacadeOps =>
        /\ last.result.shape = "mapping"
        /\ last.raised # "-" =>
              /\ last.result.message = last.raised
              /\ IF last.op = "sendNote"
                 THEN "status" \in last.result.keys /\ last.result.status = "error"
                 ELSE "error" \in last.result.keys
        /\ last.auth \in LoginFailures \cup {"no_credentials"} =>
              /\ last.raised # "-"
              /\ last.requests = 0
              /\ last.request = NoRequest

\* sendNote when the network fails during the login
C3_Witness ==
    /\ last.op = "sendNote"
    /\ last.auth = "login_network"
    /\ last.raised = "NetworkError"
    /\ last.result.status = "error"
    /\ last.requests = 0

(***************************************************************************)
(* C4: in the request of getDevices and getEvents, a filter the caller     *)
(* left unset is not among the keys, and a filter the caller set is        *)
(* carried with its value.                                                 *)
(***************************************************************************)
C4_UnsetFiltersOmitted ==
    (last.op \in {"getDevices", "getEvents"} /\ last.requests = 1) =>
        \A p \in DOMAIN last.args :
            /\ last.args[p] = Unset => p \notin DOMAIN last.request.kwargs
            /\ last.args[p] = Val =>
                  /\ p \in DOMAIN last.request.kwargs
                  /\ last.request.kwargs[p] = Val

C6_CredentialOpsReturnStatus ==
    last.op \in {"getCredentials", "setCredentials"} =>
        /\ last.result.shape = "mapping"
        /\ "status" \in last.result.keys
        /\ (/\ last.op = "setCredentials"
            /\ Truthy(last.args.username)
            /\ Truthy(last.args.password)) => last.result.status = "success"

(***************************************************************************)
(* C7, as stated: with no pair set and both environment variables          *)
(* non-empty, a facade authenticates with the environment pair instead of  *)
(* failing with the missing-credentials error.                             *)
(***************************************************************************)
C7_EnvironmentPairUsedWhenNoneSet ==
    (last.op \in FacadeOps /\ EnvComplete) => last.auth # "no_credentials"

(***************************************************************************)
(* C7, amended: a pair that is set stays in place through getCredentials   *)
(* and through the facades, and the facades log in with it; with no pair   *)
(* set, a facade fails with the missing-credentials error without a login  *)
(* or a request, whatever the environment holds; the environment pair      *)
(* becomes the active one when getCredentials is called with no pair set   *)
(* and both variables non-empty.                                           *)
(***************************************************************************)
C7_CredentialResolution ==
    [][/\ (current_credentials # None /\ (GetCredentialsStep \/ Facade)) =>
            current_credentials' = current_credentials
       /\ (current_credentials # None /\ Facade) =>
            /\ last'.auth # "no_credentials"
            /\ last'.auth = "login_ok" => last'.token.pair = current_credentials
       /\ (current_credentials = None /\ Facade) =>
            /\ last'.auth = "no_credentials"
            /\ last'.logins = 0
            /\ last'.requests = 0
            /\ current_credentials' = None
       /\ (current_credentials = None /\ GetCredentialsStep) =>
            /\ current_credentials' = IF EnvComplete THEN EnvPair ELSE None
            /\ last'.result.status = IF EnvComplete THEN "success" ELSE "error"
            /\ last'.logins = 0
      ]_vars

\* getCredentials found a pair set that is not the environment's
C7_Witness ==
    /\ last.op = "getCredentials"
    /\ last.result.message = "Credentials are already set programmatically"
    /\ EnvComplete
    /\ current_credentials # None
    /\ current_credentials # EnvPair

(***************************************************************************)
(* C8: every cache entry holds a token a successful login returned, no     *)
(* later than its stamp; a facade whose login fails has made exactly one   *)
(* login attempt and leaves the cache as the purge left it, without an     *)
(* entry for the active pair; the next facade call logs in again.          *)
(***************************************************************************)
C8_InsertOnlyOnSuccessfulLogin ==
    [][/\ \A k \in DOMAIN token_cache' :
            /\ token_cache'[k].token # NoToken
            /\ token_cache'[k].token.pair # None
            /\ token_cache'[k].token.issued <= token_cache'[k].timestamp
            /\ token_cache'[k].timestamp <= now'
       /\ (Facade /\ last'.auth \in LoginFailures) =>
            /\ last'.logins = 1
            /\ last'.token = NoToken
            /\ token_cache' = clear_expired_tokens(token_cache, now)
            /\ cache_key(current_credentials) \notin DOMAIN token_cache'
       /\ (Facade /\ last.op \in FacadeOps /\ last.auth \in LoginFailures) =>
            last'.logins = 1
      ]_vars

\* a rejected login while another pair's token is cached
C8_Witness ==
    /\ last.op \in FacadeOps
    /\ last.auth = "login_rejected"
    /\ last.logins = 1
    /\ token_cache # <<>>
    /\ ~ActiveKeyCached

C10_TokenOfActivePair ==
    (last.op \in FacadeOps /\ last.auth \in {"hit", "login_ok"}) =>
        last.token.pair = current_credentials

====
